---- MODULE Spec2Model ----
(***************************************************************************)
(* Model of the socket registry of src/iface/socket_set.rs (SocketSet).    *)
(* A SocketSet owns a ManagedSlice of SocketStorage slots, each holding    *)
(* Option<Item>.  Handles are SocketHandle(usize), modelled by the index.  *)
(* Sequences are 1-based: slot `index` of the code is sockets[index + 1].  *)
(***************************************************************************)
EXTENDS Integers, Sequences, FiniteSets, TLC

\* ---------------------------------------------------------------- bounds
\* Largest backend length explored (fixed capacity, or growth limit of Vec).
MaxLen == 3
\* Handle indices presented by callers run a little past the largest length.
MaxHandle == MaxLen + 1

\* The closed set of socket variants used, and the payload states of each.
Kinds == {"tcp", "udp"}
States == {0, 1}
Handles == 0 .. MaxHandle

\* ---------------------------------------------------------------- values
\* Option<T>: None is the empty sequence, Some(x) a one-element sequence.
None == << >>
Some(x) == << x >>
is_none(o) == o = None
unwrap(o) == o[1]

\* SocketStorage::EMPTY
EMPTY == [inner |-> None]

\* Placeholders for "no value" in the record of the last call.
NoHandle == -1
NoKind == "none"
NoSocket == [tag |-> "none", val |-> 0]
NoRef == [ty |-> "none", state |-> 0]

\* A concrete socket value of type T (tcp::Socket, udp::Socket, ...) in state v.
Concrete(T, v) == [ty |-> T, state |-> v]

\* SocketHandle::default() is SocketHandle(0); Meta::default() carries it.
MetaDefault == [handle |-> 0]

\* AnySocket::upcast: wrap a concrete socket into the Socket enum, whose
\* variant tag is the socket's type.
upcast(c) == [tag |-> c.ty, val |-> c.state]

\* AnySocket::downcast: pattern match on the enum tag.
downcast(T, socket) ==
    IF socket.tag = T THEN Some(Concrete(T, socket.val)) ELSE None

\* AnySocket::downcast_mut: same match, mutable borrow.
downcast_mut(T, socket) ==
    IF socket.tag = T THEN Some(Concrete(T, socket.val)) ELSE None

\* Faulty variant of push: two slots are appended instead of one.
push_twice(s) == Append(Append(s, [inner |-> None]), [inner |-> None])

\* Vec::push of an empty SocketStorage (the Owned arm of add).
push(s) == Append(s, [inner |-> None])

\* ---------------------------------------------------------------- add
\* Faulty variant of put: the payload is replaced by a socket in its initial
\* state instead of the one passed.
put_fresh(index, socket) ==
    LET handle == index
        meta == [MetaDefault EXCEPT !.handle = handle]
    IN  [slot |-> [inner |-> Some([meta |-> meta,
                                   socket |-> [socket EXCEPT !.val = 0]])],
         handle |-> handle]

\* Faulty variant of put: the handle is not stamped in the meta, which keeps
\* the default one.
put_default_meta(index, socket) ==
    LET handle == index
        meta == MetaDefault
    IN  [slot |-> [inner |-> Some([meta |-> meta, socket |-> socket])],
         handle |-> handle]

\* Faulty variant of put: the handle is built from index + 1.
put_off_by_one(index, socket) ==
    LET handle == index + 1
        meta == [MetaDefault EXCEPT !.handle = handle]
    IN  [slot |-> [inner |-> Some([meta |-> meta, socket |-> socket])],
         handle |-> handle]

\* fn put: build the handle, stamp it in the meta, overwrite the slot.
put(index, socket) ==
    LET handle == index
        meta == [MetaDefault EXCEPT !.handle = handle]
    IN  [slot |-> [inner |-> Some([meta |-> meta, socket |-> socket])],
         handle |-> handle]

\* Faulty variant of the scan: the is_none test is missing, so the first slot
\* visited is taken whether vacant or not.
ScanVacantAny(s, index) ==
    IF index >= Len(s) THEN NoHandle ELSE index

\* Faulty variant of the scan: the slots are visited from the last one down,
\* so the vacant slot of highest index is found.
ScanVacantLast(s, index) ==
    LET V == {i \in index .. Len(s) - 1 : is_none(s[i + 1].inner)}
    IN  IF V = {} THEN NoHandle ELSE CHOOSE i \in V : \A j \in V : j <= i

\* The for loop of add: first index whose slot is vacant, NoHandle if none.
RECURSIVE ScanVacant(_, _)
ScanVacant(s, index) ==
    IF index >= Len(s) THEN NoHandle
    ELSE IF is_none(s[index + 1].inner) THEN index
    ELSE ScanVacant(s, index + 1)

\* Faulty variant of add: after the push the socket is put in slot 0 instead
\* of the slot just appended.
add_overwrite_first(s, owned, c) ==
    LET socket == upcast(c)
        index == ScanVacant(s, 0)
    IN  IF index # NoHandle
        THEN LET p == put(index, socket)
             IN  [sockets |-> [s EXCEPT ![index + 1] = p.slot],
                  res |-> "Ok", handle |-> p.handle]
        ELSE IF ~owned
        THEN [sockets |-> s, res |-> "Panic", handle |-> NoHandle]
        ELSE LET pushed == push(s)
                 idx == 0
                 p == put(idx, socket)
             IN  [sockets |-> [pushed EXCEPT ![idx + 1] = p.slot],
                  res |-> "Ok", handle |-> p.handle]

\* SocketSet::add.  Borrowed (fixed) storage that is full panics.
add(s, owned, c) ==
    LET socket == upcast(c)
        index == ScanVacant(s, 0)
    IN  IF index # NoHandle
        THEN LET p == put(index, socket)
             IN  [sockets |-> [s EXCEPT ![index + 1] = p.slot],
                  res |-> "Ok", handle |-> p.handle]
        ELSE IF ~owned
        THEN [sockets |-> s, res |-> "Panic", handle |-> NoHandle]
        ELSE LET pushed == push(s)
                 idx == Len(pushed) - 1
                 p == put(idx, socket)
             IN  [sockets |-> [pushed EXCEPT ![idx + 1] = p.slot],
                  res |-> "Ok", handle |-> p.handle]

\* ---------------------------------------------------------------- try_*
\* Faulty variant of try_get: the occupant is handed out as a T without
\* comparing its tag.
try_get_unchecked(s, T, handle) ==
    IF ~(handle < Len(s)) THEN [res |-> "OutOfBounds", val |-> NoRef]
    ELSE LET entry == s[handle + 1]
         IN  IF is_none(entry.inner) THEN [res |-> "Vacant", val |-> NoRef]
             ELSE LET item == unwrap(entry.inner)
                  IN  [res |-> "Ok", val |-> Concrete(T, item.socket.val)]

\* Faulty variant of try_get: an empty slot is reported as OutOfBounds.
try_get_vacant_oob(s, T, handle) ==
    IF ~(handle < Len(s)) THEN [res |-> "OutOfBounds", val |-> NoRef]
    ELSE LET entry == s[handle + 1]
         IN  IF is_none(entry.inner) THEN [res |-> "OutOfBounds", val |-> NoRef]
             ELSE LET item == unwrap(entry.inner)
                      d == downcast(T, item.socket)
                  IN  IF is_none(d) THEN [res |-> "WrongType", val |-> NoRef]
                      ELSE [res |-> "Ok", val |-> unwrap(d)]

\* SocketSet::try_get
try_get(s, T, handle) ==
    IF ~(handle < Len(s)) THEN [res |-> "OutOfBounds", val |-> NoRef]
    ELSE LET entry == s[handle + 1]
         IN  IF is_none(entry.inner) THEN [res |-> "Vacant", val |-> NoRef]
             ELSE LET item == unwrap(entry.inner)
                      d == downcast(T, item.socket)
                  IN  IF is_none(d) THEN [res |-> "WrongType", val |-> NoRef]
                      ELSE [res |-> "Ok", val |-> unwrap(d)]

\* Faulty variant of try_get_mut: the occupant is handed out as a T without
\* comparing its tag.
try_get_mut_unchecked(s, T, handle) ==
    IF ~(handle < Len(s)) THEN [res |-> "OutOfBounds", val |-> NoRef]
    ELSE LET entry == s[handle + 1]
         IN  IF is_none(entry.inner) THEN [res |-> "Vacant", val |-> NoRef]
             ELSE LET item == unwrap(entry.inner)
                  IN  [res |-> "Ok", val |-> Concrete(T, item.socket.val)]

\* SocketSet::try_get_mut
try_get_mut(s, T, handle) ==
    IF ~(handle < Len(s)) THEN [res |-> "OutOfBounds", val |-> NoRef]
    ELSE LET entry == s[handle + 1]
         IN  IF is_none(entry.inner) THEN [res |-> "Vacant", val |-> NoRef]
             ELSE LET item == unwrap(entry.inner)
                      d == downcast_mut(T, item.socket)
                  IN  IF is_none(d) THEN [res |-> "WrongType", val |-> NoRef]
                      ELSE [res |-> "Ok", val |-> unwrap(d)]

\* Faulty variant of try_remove: an index past the end is clamped to the last
\* slot, which is emptied before OutOfBounds is reported.
try_remove_oob_last(s, handle) ==
    IF ~(handle < Len(s))
    THEN [sockets |-> IF Len(s) = 0 THEN s
                      ELSE [s EXCEPT ![Len(s)] = [inner |-> None]],
          res |-> "OutOfBounds", val |-> NoSocket]
    ELSE LET entry == s[handle + 1]
         IN  IF is_none(entry.inner)
             THEN [sockets |-> s, res |-> "Vacant", val |-> NoSocket]
             ELSE [sockets |-> [s EXCEPT ![handle + 1] = [inner |-> None]],
                   res |-> "Ok", val |-> unwrap(entry.inner).socket]

\* Faulty variant of try_remove: removing the occupant of the last slot pops
\* that slot off the backend.
try_remove_pop(s, handle) ==
    IF ~(handle < Len(s))
    THEN [sockets |-> s, res |-> "OutOfBounds", val |-> NoSocket]
    ELSE LET entry == s[handle + 1]
         IN  IF is_none(entry.inner)
             THEN [sockets |-> s, res |-> "Vacant", val |-> NoSocket]
             ELSE [sockets |-> IF handle = Len(s) - 1
                               THEN SubSeq(s, 1, Len(s) - 1)
                               ELSE [s EXCEPT ![handle + 1] = [inner |-> None]],
                   res |-> "Ok", val |-> unwrap(entry.inner).socket]

\* Faulty variant of try_remove: the slot is read (as_ref) and not emptied.
try_remove_peek(s, handle) ==
    IF ~(handle < Len(s))
    THEN [sockets |-> s, res |-> "OutOfBounds", val |-> NoSocket]
    ELSE LET entry == s[handle + 1]
         IN  IF is_none(entry.inner)
             THEN [sockets |-> s, res |-> "Vacant", val |-> NoSocket]
             ELSE [sockets |-> s, res |-> "Ok",
                   val |-> unwrap(entry.inner).socket]

\* SocketSet::try_remove: take() empties the slot, the payload is returned.
try_remove(s, handle) ==
    IF ~(handle < Len(s))
    THEN [sockets |-> s, res |-> "OutOfBounds", val |-> NoSocket]
    ELSE LET entry == s[handle + 1]
         IN  IF is_none(entry.inner)
             THEN [sockets |-> s, res |-> "Vacant", val |-> NoSocket]
             ELSE [sockets |-> [s EXCEPT ![handle + 1] = [inner |-> None]],
                   res |-> "Ok", val |-> unwrap(entry.inner).socket]

\* ---------------------------------------------------------------- panicking
\* Faulty variant of get: the occupant is handed out as a T without the
\* downcast (no expect on the type).
get_unchecked(s, T, handle) ==
    IF ~(handle < Len(s)) THEN [res |-> "Panic", val |-> NoRef]
    ELSE LET inner == s[handle + 1].inner
         IN  IF is_none(inner) THEN [res |-> "Panic", val |-> NoRef]
             ELSE [res |-> "Ok", val |-> Concrete(T, unwrap(inner).socket.val)]

\* SocketSet::get: indexing panics out of range, then None / expect panic.
get(s, T, handle) ==
    IF ~(handle < Len(s)) THEN [res |-> "Panic", val |-> NoRef]
    ELSE LET inner == s[handle + 1].inner
         IN  IF is_none(inner) THEN [res |-> "Panic", val |-> NoRef]
             ELSE LET d == downcast(T, unwrap(inner).socket)
                  IN  IF is_none(d) THEN [res |-> "Panic", val |-> NoRef]
                      ELSE [res |-> "Ok", val |-> unwrap(d)]

\* SocketSet::get_mut
get_mut(s, T, handle) ==
    IF ~(handle < Len(s)) THEN [res |-> "Panic", val |-> NoRef]
    ELSE LET inner == s[handle + 1].inner
         IN  IF is_none(inner) THEN [res |-> "Panic", val |-> NoRef]
             ELSE LET d == downcast_mut(T, unwrap(inner).socket)
                  IN  IF is_none(d) THEN [res |-> "Panic", val |-> NoRef]
                      ELSE [res |-> "Ok", val |-> unwrap(d)]

\* SocketSet::remove
remove(s, handle) ==
    IF ~(handle < Len(s))
    THEN [sockets |-> s, res |-> "Panic", val |-> NoSocket]
    ELSE LET inner == s[handle + 1].inner
         IN  IF is_none(inner)
             THEN [sockets |-> s, res |-> "Panic", val |-> NoSocket]
             ELSE [sockets |-> [s EXCEPT ![handle + 1] = [inner |-> None]],
                   res |-> "Ok", val |-> unwrap(inner).socket]

\* ---------------------------------------------------------------- iteration
\* Faulty variant of items: the walk stops at the first vacant slot.
items_until_vacant(s, index) ==
    LET stop == ScanVacant(s, index)
        end == IF stop = NoHandle THEN Len(s) ELSE stop
    IN  [k \in 1 .. end - index |-> unwrap(s[index + k].inner)]

\* SocketSet::items: filter_map over the slots in index order.
RECURSIVE items_from(_, _)
items_from(s, index) ==
    IF index >= Len(s) THEN << >>
    ELSE IF is_none(s[index + 1].inner) THEN items_from(s, index + 1)
    ELSE << unwrap(s[index + 1].inner) >> \o items_from(s, index + 1)

items(s) == items_from(s, 0)

\* SocketSet::items_mut
items_mut(s) == items_from(s, 0)

\* SocketSet::iter: map each item to (meta.handle, socket).
iter(s) ==
    LET its == items(s)
    IN  [k \in 1 .. Len(its) |-> << its[k].meta.handle, its[k].socket >>]

\* SocketSet::iter_mut
iter_mut(s) ==
    LET its == items_mut(s)
    IN  [k \in 1 .. Len(its) |-> << its[k].meta.handle, its[k].socket >>]

\* ---------------------------------------------------------------- state
VARIABLES
    sockets,   \* SocketSet.sockets: the slots of the backend
    growable,  \* TRUE for ManagedSlice::Owned, FALSE for ManagedSlice::Borrowed
    panicked,  \* a panic! / expect / index panic was reached
    issued,    \* indices of the handles add has returned so far
    last       \* the last call: operation, arguments and what it returned

vars == << sockets, growable, panicked, issued, last >>

\* op: the method; h, ty, arg: the handle, requested type and socket passed;
\* res: "Ok", an error of SocketSetError, or "Panic"; ret_h, ret_ref, ret_sock,
\* ret_items: the handle, borrow, owned socket or iteration sequence returned.
Call(op, h, ty, arg, res, rh, rr, rs, ri) ==
    [op |-> op, h |-> h, ty |-> ty, arg |-> arg, res |-> res,
     ret_h |-> rh, ret_ref |-> rr, ret_sock |-> rs, ret_items |-> ri]

\* Faulty variant of new: the first slot of the storage is initialised with an
\* item instead of being left as supplied.
new_occupied(n) ==
    [i \in 1 .. n |->
        IF i = 1
        THEN [inner |-> Some([meta |-> MetaDefault, socket |-> NoSocket])]
        ELSE EMPTY]

\* SocketSet::new: wrap the storage as supplied; storage slots are EMPTY.
new(n) == [i \in 1 .. n |-> EMPTY]

Init ==
    /\ growable \in BOOLEAN
    /\ \E n \in 0 .. MaxLen : sockets = new(n)
    /\ panicked = FALSE
    /\ issued = {}
    /\ last = Call("new", NoHandle, NoKind, NoRef, "Ok", NoHandle, NoRef, NoSocket, << >>)

\* A call of add(socket) with a socket of type T in state v.
Add ==
    /\ ~panicked
    /\ \E T \in Kinds, v \in States :
        LET r == add(sockets, growable, Concrete(T, v))
        IN  /\ Len(r.sockets) <= MaxLen
            /\ sockets' = r.sockets
            /\ panicked' = (r.res = "Panic")
            /\ issued' = IF r.res = "Ok" THEN issued \cup {r.handle} ELSE issued
            /\ last' = Call("add", NoHandle, T, Concrete(T, v), r.res,
                            r.handle, NoRef, NoSocket, << >>)
            /\ UNCHANGED growable

TryGet ==
    /\ ~panicked
    /\ \E T \in Kinds, h \in Handles :
        LET r == try_get(sockets, T, h)
        IN  /\ last' = Call("try_get", h, T, NoRef, r.res, NoHandle, r.val,
                            NoSocket, << >>)
            /\ UNCHANGED << sockets, growable, panicked, issued >>

TryGetMut ==
    /\ ~panicked
    /\ \E T \in Kinds, h \in Handles :
        LET r == try_get_mut(sockets, T, h)
        IN  /\ last' = Call("try_get_mut", h, T, NoRef, r.res, NoHandle, r.val,
                            NoSocket, << >>)
            /\ UNCHANGED << sockets, growable, panicked, issued >>

TryRemove ==
    /\ ~panicked
    /\ \E h \in Handles :
        LET r == try_remove(sockets, h)
        IN  /\ sockets' = r.sockets
            /\ last' = Call("try_remove", h, NoKind, NoRef, r.res, NoHandle, NoRef,
                            r.val, << >>)
            /\ UNCHANGED << growable, panicked, issued >>

Get ==
    /\ ~panicked
    /\ \E T \in Kinds, h \in Handles :
        LET r == get(sockets, T, h)
        IN  /\ panicked' = (r.res = "Panic")
            /\ last' = Call("get", h, T, NoRef, r.res, NoHandle, r.val,
                            NoSocket, << >>)
            /\ UNCHANGED << sockets, growable, issued >>

GetMut ==
    /\ ~panicked
    /\ \E T \in Kinds, h \in Handles :
        LET r == get_mut(sockets, T, h)
        IN  /\ panicked' = (r.res = "Panic")
            /\ last' = Call("get_mut", h, T, NoRef, r.res, NoHandle, r.val,
                            NoSocket, << >>)
            /\ UNCHANGED << sockets, growable, issued >>

Remove ==
    /\ ~panicked
    /\ \E h \in Handles :
        LET r == remove(sockets, h)
        IN  /\ sockets' = r.sockets
            /\ panicked' = (r.res = "Panic")
            /\ last' = Call("remove", h, NoKind, NoRef, r.res, NoHandle, NoRef,
                            r.val, << >>)
            /\ UNCHANGED << growable, issued >>

Iter ==
    /\ ~panicked
    /\ last' = Call("iter", NoHandle, NoKind, NoRef, "Ok", NoHandle, NoRef, NoSocket,
                    iter(sockets))
    /\ UNCHANGED << sockets, growable, panicked, issued >>

IterMut ==
    /\ ~panicked
    /\ last' = Call("iter_mut", NoHandle, NoKind, NoRef, "Ok", NoHandle, NoRef, NoSocket,
                    iter_mut(sockets))
    /\ UNCHANGED << sockets, growable, panicked, issued >>

Next ==
    \/ Add
    \/ TryGet
    \/ TryGetMut
    \/ TryRemove
    \/ Get
    \/ GetMut
    \/ Remove
    \/ Iter
    \/ IterMut

Spec == Init /\ [][Next]_vars

\* ---------------------------------------------------------------- properties
\* Indices of the occupied and of the vacant slots of a backend.
OccupiedIdx(s) == {i \in 0 .. Len(s) - 1 : s[i + 1].inner # None}
VacantIdx(s) == {i \in 0 .. Len(s) - 1 : s[i + 1].inner = None}
\* The smallest element of a non-empty set of indices.
Lowest(S) == CHOOSE i \in S : \A j \in S : i <= j

TypedResults == {"Ok", "OutOfBounds", "Vacant", "WrongType", "Full"}

\* C1: on a fixed backend whose slots are all occupied, add returns the error
\* Full and does not panic.
C1_FullIsAnError ==
    [][(~growable /\ VacantIdx(sockets) = {} /\ last'.op = "add")
        => (last'.res = "Full" /\ ~panicked')]_vars

\* C2: no operation of the public surface reaches a panic; every call ends
\* with a success value or a typed error value.
C2_NeverPanics ==
    ~panicked /\ (last.op # "new" => last.res \in TypedResults)

\* The outcome the ordered check chain of the lookup prescribes.
ChainOutcome(s, T, h) ==
    IF h >= Len(s) THEN "OutOfBounds"
    ELSE IF h \in VacantIdx(s) THEN "Vacant"
    ELSE IF s[h + 1].inner[1].socket.tag # T THEN "WrongType"
    ELSE "Ok"

\* C3: try_get and try_get_mut report, for every handle and requested type,
\* the first failure of the chain OutOfBounds, Vacant, WrongType, else Ok with
\* a borrow of the occupant; both give the same outcome, and the outcome a
\* call returned is the one of the chain.
C3_CheckChain ==
    /\ \A T \in Kinds, h \in Handles :
        LET g == try_get(sockets, T, h)
            m == try_get_mut(sockets, T, h)
        IN  /\ g.res = ChainOutcome(sockets, T, h)
            /\ m.res = g.res
            /\ g.res \in {"Ok", "OutOfBounds", "Vacant", "WrongType"}
            /\ g.res = "Ok" =>
                /\ g.val = Concrete(T, sockets[h + 1].inner[1].socket.val)
                /\ m.val = g.val
    /\ last.op \in {"try_get", "try_get_mut"} =>
        last.res = ChainOutcome(sockets, last.ty, last.h)

\* C3 witness: a tcp socket is stored and was requested as udp.
C3_Witness ==
    /\ last.op = "try_get"
    /\ last.ty = "udp"
    /\ last.res = "WrongType"
    /\ sockets[last.h + 1].inner[1].socket.tag = "tcp"

\* C4: when some slot is vacant, add occupies the vacant slot of lowest index,
\* returns the handle with that index, does not append, and the slot holds the
\* socket passed.
C4_LowestVacant ==
    [][(last'.op = "add" /\ VacantIdx(sockets) # {}) =>
        LET i == Lowest(VacantIdx(sockets))
        IN  /\ last'.res = "Ok"
            /\ last'.ret_h = i
            /\ Len(sockets') = Len(sockets)
            /\ sockets'[i + 1].inner # None
            /\ sockets'[i + 1].inner[1].socket = upcast(last'.arg)
            /\ OccupiedIdx(sockets') = OccupiedIdx(sockets) \cup {i}]_vars

\* C4 witness: add returned #1 while the higher slot #2 was (and is) vacant.
C4_Witness ==
    /\ last.op = "add"
    /\ last.res = "Ok"
    /\ last.ret_h = 1
    /\ Len(sockets) >= 3
    /\ 2 \in VacantIdx(sockets)

\* C5: on a growable backend add never fails; the length grows by exactly one
\* iff no slot was vacant, the handle then has the old length as index; with a
\* vacant slot the length is unchanged.
C5_GrowableAdd ==
    [][(growable /\ last'.op = "add") =>
        /\ last'.res = "Ok"
        /\ ~panicked'
        /\ Len(sockets') \in {Len(sockets), Len(sockets) + 1}
        /\ (Len(sockets') = Len(sockets) + 1) <=> (VacantIdx(sockets) = {})
        /\ VacantIdx(sockets) = {} => last'.ret_h = Len(sockets)
        /\ VacantIdx(sockets) # {} => Len(sockets') = Len(sockets)]_vars

\* C5 witness: a growable backend after an add that filled its last slot, all
\* slots occupied by sockets add has placed.
C5_Witness ==
    /\ growable
    /\ last.op = "add"
    /\ last.res = "Ok"
    /\ Len(sockets) >= 2
    /\ last.ret_h = Len(sockets) - 1
    /\ VacantIdx(sockets) = {}

\* C6: round trip.  Right after add(s), s of type T, returned handle h,
\* try_get::<T>(h) succeeds with a socket of the type and state of s.
C6_RoundTrip ==
    (last.op = "add" /\ last.res = "Ok") =>
        LET g == try_get(sockets, last.arg.ty, last.ret_h)
        IN  /\ g.res = "Ok"
            /\ g.val = last.arg
            /\ g.val.ty = last.ty

\* C6 witness: an add of a udp socket in state 1 that returned #1.
C6_Witness ==
    /\ last.op = "add"
    /\ last.res = "Ok"
    /\ last.ret_h = 1
    /\ last.arg = Concrete("udp", 1)

\* C7: try_remove(h) fails with OutOfBounds when h is past the backend length,
\* with Vacant when the slot is empty, and leaves the registry as it was;
\* otherwise, whatever the occupant's kind, it succeeds, the slot becomes
\* vacant, the stored payload is returned as stored, and every other slot and
\* the length are unchanged.  A remove that returns has the same effect.
C7_RemoveEffect ==
    [][(last'.op \in {"try_remove", "remove"}) =>
        LET h == last'.h
        IN  /\ (last'.op = "try_remove" /\ h >= Len(sockets)) =>
                (last'.res = "OutOfBounds" /\ sockets' = sockets)
            /\ (last'.op = "try_remove" /\ h \in VacantIdx(sockets)) =>
                (last'.res = "Vacant" /\ sockets' = sockets)
            /\ (last'.op = "try_remove" /\ h \in OccupiedIdx(sockets)) =>
                last'.res = "Ok"
            /\ last'.res = "Ok" =>
                /\ h \in OccupiedIdx(sockets)
                /\ last'.ret_sock = sockets[h + 1].inner[1].socket
                /\ Len(sockets') = Len(sockets)
                /\ sockets'[h + 1].inner = None
                /\ \A i \in 0 .. Len(sockets) - 1 :
                    i # h => sockets'[i + 1] = sockets[i + 1]]_vars

\* C7 witness: try_remove returned a udp socket in state 1 from slot #1 while
\* slot #0 stays occupied.
C7_Witness ==
    /\ last.op = "try_remove"
    /\ last.res = "Ok"
    /\ last.h = 1
    /\ last.ret_sock = upcast(Concrete("udp", 1))
    /\ 0 \in OccupiedIdx(sockets)
    /\ 1 \in VacantIdx(sockets)

\* Every lookup and removal through handle h answers Vacant.
AnswersVacant(s, h) ==
    /\ \A T \in Kinds :
        /\ try_get(s, T, h).res = "Vacant"
        /\ try_get_mut(s, T, h).res = "Vacant"
    /\ try_remove(s, h).res = "Vacant"

\* C8: after a successful removal through h, try_get(h) for any type and a
\* second try_remove(h) yield Vacant, and keep doing so over every later step
\* that is not an add returning h; the calls made in such states return Vacant.
C8_PostRemoval ==
    [][/\ (last'.op \in {"try_remove", "remove"} /\ last'.res = "Ok") =>
            AnswersVacant(sockets', last'.h)
       /\ \A h \in Handles :
            (AnswersVacant(sockets, h) /\ ~(last'.op = "add" /\ last'.ret_h = h))
                => AnswersVacant(sockets', h)
       /\ (last'.op \in {"try_get", "try_get_mut", "try_remove"}
            /\ AnswersVacant(sockets, last'.h)) => last'.res = "Vacant"]_vars

\* C8 witness: try_get through a handle add had returned finds the slot
\* vacant (its occupant was removed), other sockets still being stored.
C8_Witness ==
    /\ last.op = "try_get"
    /\ last.res = "Vacant"
    /\ last.h \in issued
    /\ OccupiedIdx(sockets) # {}

\* The handles a sequence of (handle, socket) pairs yields.
HandlesOf(seq) == {seq[k][1] : k \in 1 .. Len(seq)}

\* seq holds one pair per occupied slot of s, none for a vacant one, in
\* strictly ascending index order, each with the socket that slot stores.
YieldsOccupied(seq, s) ==
    /\ Len(seq) = Cardinality(OccupiedIdx(s))
    /\ HandlesOf(seq) = OccupiedIdx(s)
    /\ \A k \in 1 .. Len(seq) - 1 : seq[k][1] < seq[k + 1][1]
    /\ \A k \in 1 .. Len(seq) : seq[k][2] = s[seq[k][1] + 1].inner[1].socket

\* C9: iter and iter_mut yield exactly one pair per occupied slot and none for
\* vacant slots, strictly ascending; the handles yielded are those for which
\* try_get succeeds with some type; the sequence a call returned is that one.
C9_Iteration ==
    /\ YieldsOccupied(iter(sockets), sockets)
    /\ YieldsOccupied(iter_mut(sockets), sockets)
    /\ HandlesOf(iter(sockets)) =
        {h \in Handles : \E T \in Kinds : try_get(sockets, T, h).res = "Ok"}
    /\ last.op \in {"iter", "iter_mut"} => YieldsOccupied(last.ret_items, sockets)

\* C9 witness: an iteration over three slots of which the middle one was
\* vacated, yielding the two remaining pairs.
C9_Witness ==
    /\ last.op = "iter"
    /\ Len(sockets) = 3
    /\ issued = {0, 1, 2}
    /\ VacantIdx(sockets) = {1}
    /\ Len(last.ret_items) = 2

\* C10: a handle add never returned on this registry resolves to OutOfBounds
\* or Vacant: never to a success, never to WrongType.
C10_InvalidHandle ==
    /\ \A h \in Handles \ issued : \A T \in Kinds :
        /\ try_get(sockets, T, h).res \in {"OutOfBounds", "Vacant"}
        /\ try_get_mut(sockets, T, h).res \in {"OutOfBounds", "Vacant"}
    /\ (last.op \in {"try_get", "try_get_mut"} /\ last.h \notin issued) =>
        last.res \in {"OutOfBounds", "Vacant"}

\* C10 witness: sockets are stored, and try_get through a handle add never
\* returned found an existing but vacant slot.
C10_Witness ==
    /\ last.op = "try_get"
    /\ last.h \notin issued
    /\ issued # {}
    /\ OccupiedIdx(sockets) # {}
    /\ last.res = "Vacant"

\* C11: handles carry no generation.  An add made when the lowest vacant index
\* is that of a handle add returned before (its occupant was removed) returns
\* an equal handle, and the old handle resolves to the new occupant: requested
\* as type T, Ok with the new socket when T is its kind, WrongType otherwise;
\* in particular for T the kind of the socket removed in the step before.
C11_StaleHandleAliasing ==
    [][(last'.op = "add" /\ VacantIdx(sockets) # {}
        /\ Lowest(VacantIdx(sockets)) \in issued) =>
        LET h == Lowest(VacantIdx(sockets))
        IN  /\ last'.ret_h = h
            /\ \A T \in Kinds :
                try_get(sockets', T, h) =
                    IF T = last'.arg.ty
                    THEN [res |-> "Ok", val |-> last'.arg]
                    ELSE [res |-> "WrongType", val |-> NoRef]
            /\ (last.op \in {"try_remove", "remove"} /\ last.res = "Ok"
                /\ last.h = h) =>
                LET T == last.ret_sock.tag
                IN  /\ last'.arg.ty # T =>
                        try_get(sockets', T, h).res = "WrongType"
                    /\ last'.arg.ty = T =>
                        try_get(sockets', T, h) =
                            [res |-> "Ok", val |-> last'.arg]]_vars

\* C11 witness: add returned #0 on a backend whose slot #1 is occupied, so that
\* slot #0 was occupied before, vacated, and is now reused.
C11_Witness ==
    /\ last.op = "add"
    /\ last.res = "Ok"
    /\ last.ret_h = 0
    /\ 1 \in OccupiedIdx(sockets)

\* C12: the backend length never decreases.  It is constant on a fixed
\* backend; on a growable one a step leaves it unchanged or, add only, makes it
\* one larger; a removal never shrinks it, even from the last slot.
C12_LengthMonotone ==
    [][/\ Len(sockets') >= Len(sockets)
       /\ ~growable => Len(sockets') = Len(sockets)
       /\ Len(sockets') \in {Len(sockets), Len(sockets) + 1}
       /\ Len(sockets') = Len(sockets) + 1 => (growable /\ last'.op = "add")
       /\ last'.op \in {"try_remove", "remove"} =>
            Len(sockets') = Len(sockets)]_vars

\* C12 witness: a removal vacated the last slot of a backend of several slots.
C12_Witness ==
    /\ last.op = "try_remove"
    /\ last.res = "Ok"
    /\ Len(sockets) >= 2
    /\ last.h = Len(sockets) - 1

\* C13: handle stability.  A slot occupied through handle h keeps its occupant
\* over every step that is not a removal through h: adds, lookups, iterations,
\* failed calls and removals through other handles; over such a step a lookup
\* through h as the occupant's type succeeds with that same socket, and the
\* lookups made return it.  No add returns the handle of an occupied slot.
C13_HandleStability ==
    [][/\ \A h \in OccupiedIdx(sockets) :
            ~(last'.op \in {"try_remove", "remove"} /\ last'.h = h) =>
                LET s == sockets[h + 1].inner[1].socket
                    want == [res |-> "Ok", val |-> Concrete(s.tag, s.val)]
                IN  /\ sockets'[h + 1] = sockets[h + 1]
                    /\ try_get(sockets, s.tag, h) = want
                    /\ try_get(sockets', s.tag, h) = want
                    /\ try_get_mut(sockets', s.tag, h) = want
                    /\ (last'.op \in {"try_get", "try_get_mut", "get", "get_mut"}
                        /\ last'.h = h /\ last'.ty = s.tag) =>
                        (last'.res = "Ok" /\ last'.ret_ref = want.val)
       /\ (last'.op = "add" /\ last'.res = "Ok") =>
            last'.ret_h \notin OccupiedIdx(sockets)]_vars

\* C13 witness: a lookup through #0 succeeded after add had returned #0, #1
\* and #2 and the occupant of #1 had been removed.
C13_Witness ==
    /\ last.op = "try_get"
    /\ last.res = "Ok"
    /\ last.h = 0
    /\ issued = {0, 1, 2}
    /\ VacantIdx(sockets) = {1}

\* The registry holds nothing: every slot is the empty storage supplied,
\* iteration yields nothing, every lookup answers OutOfBounds or Vacant.
HoldsNothing ==
    /\ \A i \in 1 .. Len(sockets) : sockets[i] = EMPTY
    /\ OccupiedIdx(sockets) = {}
    /\ iter(sockets) = << >>
    /\ iter_mut(sockets) = << >>
    /\ \A h \in Handles, T \in Kinds :
        /\ try_get(sockets, T, h).res \in {"OutOfBounds", "Vacant"}
        /\ try_get_mut(sockets, T, h).res \in {"OutOfBounds", "Vacant"}

\* C14 as stated: right after new no slot is occupied, a growable backend
\* having length 0.
C14_NewGrowableIsEmpty ==
    last.op = "new" => (HoldsNothing /\ (growable => Len(sockets) = 0))

\* C14 amended: right after new, before any add, no slot is occupied, on a
\* fixed and on a growable backend alike, whatever the length of the storage
\* supplied: every slot is vacant as supplied, iteration yields nothing and
\* every lookup answers OutOfBounds or Vacant.
C14_NewHoldsNothing ==
    last.op = "new" => (HoldsNothing /\ issued = {} /\ ~panicked)

\* C14 witness: a registry just built over a growable storage of two slots.
C14_Witness ==
    /\ last.op = "new"
    /\ growable
    /\ Len(sockets) = 2

\* C15: a successful add changes exactly one slot.  Every slot occupied before
\* holds the same item (kind, state, recorded handle) after, every vacant slot
\* but the one taken stays vacant, one more slot is occupied, and the slot
\* taken was not occupied.
C15_AddFrame ==
    [][(last'.op = "add" /\ last'.res = "Ok") =>
        LET h == last'.ret_h
        IN  /\ h \notin OccupiedIdx(sockets)
            /\ \A i \in OccupiedIdx(sockets) : sockets'[i + 1] = sockets[i + 1]
            /\ \A i \in VacantIdx(sockets) \ {h} : sockets'[i + 1] = sockets[i + 1]
            /\ OccupiedIdx(sockets') = OccupiedIdx(sockets) \cup {h}
            /\ Cardinality(OccupiedIdx(sockets')) =
                Cardinality(OccupiedIdx(sockets)) + 1
            /\ \A i \in 0 .. Len(sockets') - 1 :
                (i # h /\ i >= Len(sockets)) => sockets'[i + 1] = EMPTY]_vars

\* C15 witness: add took slot #0 of three while slot #1 holds a socket and
\* slot #2 is vacant.
C15_Witness ==
    /\ last.op = "add"
    /\ last.res = "Ok"
    /\ last.ret_h = 0
    /\ OccupiedIdx(sockets) = {0, 1}
    /\ VacantIdx(sockets) = {2}

\* C16: try_get and try_get_mut, whatever they return, and a try_remove that
\* returns OutOfBounds or Vacant leave the backend as it was: its length, the
\* occupancy of every slot and every item with its recorded handle.
C16_LookupsChangeNothing ==
    [][(\/ last'.op \in {"try_get", "try_get_mut"}
        \/ (last'.op = "try_remove" /\ last'.res \in {"OutOfBounds", "Vacant"}))
        => /\ sockets' = sockets
           /\ Len(sockets') = Len(sockets)
           /\ OccupiedIdx(sockets') = OccupiedIdx(sockets)
           /\ growable' = growable
           /\ ~panicked']_vars

\* C16 witness: a try_remove past the end of a backend that stores sockets
\* returned OutOfBounds.
C16_Witness ==
    /\ last.op = "try_remove"
    /\ last.res = "OutOfBounds"
    /\ Len(sockets) >= 2
    /\ Len(sockets) - 1 \in OccupiedIdx(sockets)

\* C17: the item of every occupied slot i records meta.handle = i.  Hence the
\* handles an iteration yields are pairwise distinct, and each is the handle
\* through which try_get, try_get_mut and try_remove reach the socket yielded
\* with it.
C17_MetaHandleIsIndex ==
    /\ \A i \in OccupiedIdx(sockets) : sockets[i + 1].inner[1].meta.handle = i
    /\ \A seq \in {iter(sockets), iter_mut(sockets)} :
        /\ \A j, k \in 1 .. Len(seq) : j # k => seq[j][1] # seq[k][1]
        /\ \A k \in 1 .. Len(seq) :
            LET h == seq[k][1]
                x == seq[k][2]
                want == [res |-> "Ok", val |-> Concrete(x.tag, x.val)]
            IN  /\ try_get(sockets, x.tag, h) = want
                /\ try_get_mut(sockets, x.tag, h) = want
                /\ try_remove(sockets, h).res = "Ok"
                /\ try_remove(sockets, h).val = x
    /\ last.op \in {"iter", "iter_mut"} =>
        \A k \in 1 .. Len(last.ret_items) :
            LET h == last.ret_items[k][1]
            IN  /\ h \in OccupiedIdx(sockets)
                /\ sockets[h + 1].inner[1].socket = last.ret_items[k][2]

\* C17 witness: iter_mut over a backend whose slot #0 is vacant yielded the
\* handles #1 and #2.
C17_Witness ==
    /\ last.op = "iter_mut"
    /\ VacantIdx(sockets) = {0}
    /\ Len(last.ret_items) = 2
    /\ last.ret_items[1][1] = 1
    /\ last.ret_items[2][1] = 2

\* C18: the panicking and the Result-returning variants agree.  On every
\* backend, handle and type, get and get_mut return a socket exactly when
\* try_get and try_get_mut return Ok, the same one, and panic exactly when those
\* return an error; remove returns exactly when try_remove returns Ok, with the
\* same payload and the same backend after, and panics, leaving the backend as
\* it was, exactly when try_remove returns an error.  The calls made behave so.
C18_PanickingAgrees ==
    /\ \A h \in Handles :
        /\ \A T \in Kinds :
            LET g == get(sockets, T, h)
                m == get_mut(sockets, T, h)
                tg == try_get(sockets, T, h)
                tm == try_get_mut(sockets, T, h)
            IN  /\ g.res \in {"Ok", "Panic"}
                /\ m.res \in {"Ok", "Panic"}
                /\ (g.res = "Ok") <=> (tg.res = "Ok")
                /\ (m.res = "Ok") <=> (tm.res = "Ok")
                /\ (g.res = "Panic") <=>
                    (tg.res \in {"OutOfBounds", "Vacant", "WrongType"})
                /\ (m.res = "Panic") <=>
                    (tm.res \in {"OutOfBounds", "Vacant", "WrongType"})
                /\ g.val = tg.val
                /\ m.val = tm.val
        /\ LET r == remove(sockets, h)
               tr == try_remove(sockets, h)
           IN  /\ r.res \in {"Ok", "Panic"}
               /\ (r.res = "Ok") <=> (tr.res = "Ok")
               /\ (r.res = "Panic") <=> (tr.res \in {"OutOfBounds", "Vacant"})
               /\ r.val = tr.val
               /\ r.sockets = tr.sockets
    /\ last.op = "get" =>
        LET t == try_get(sockets, last.ty, last.h)
        IN  /\ last.ret_ref = t.val
            /\ panicked = (t.res # "Ok")
            /\ last.res = IF t.res = "Ok" THEN "Ok" ELSE "Panic"
    /\ last.op = "get_mut" =>
        LET t == try_get_mut(sockets, last.ty, last.h)
        IN  /\ last.ret_ref = t.val
            /\ panicked = (t.res # "Ok")
            /\ last.res = IF t.res = "Ok" THEN "Ok" ELSE "Panic"
    /\ last.op = "remove" =>
        LET t == try_remove(sockets, last.h)
        IN  /\ panicked = (last.res = "Panic")
            /\ last.res = "Panic" =>
                (t.res \in {"OutOfBounds", "Vacant"} /\ last.ret_sock = t.val)
            /\ last.res = "Ok" =>
                (last.h \in VacantIdx(sockets) /\ last.ret_sock # NoSocket)

\* C18 witness: get_mut panicked on a handle whose slot holds a socket of
\* another type, where try_get_mut returns WrongType.
C18_Witness ==
    /\ panicked
    /\ last.op = "get_mut"
    /\ last.res = "Panic"
    /\ try_get_mut(sockets, last.ty, last.h).res = "WrongType"


====
